---- MODULE Spec2Model ----
(***************************************************************************)
(* Model of client/src/main.rs: the entry point of the yew front end.      *)
(*                                                                         *)
(*   fn main() {                                                           *)
(*       yew::initialize();                       // line 8                *)
(*       App::<Model>::new().mount_to_body();     // line 9                *)
(*       yew::run_loop();                         // line 10               *)
(*   }                                            // line 11               *)
(*                                                                         *)
(* main is modelled statement by statement.  Every call of the framework   *)
(* is two steps, the call and its return, so that what is in progress and  *)
(* in which order calls were issued are part of the state.  The bodies of  *)
(* the yew functions are not part of the repository: a call is observed    *)
(* only through the fact that it was made and that it returned.            *)
(***************************************************************************)
EXTENDS Naturals, Sequences, FiniteSets

VARIABLES
    pc,       \* where main is: at a statement ("L..") or inside a call ("in_..")
    active,   \* the framework calls that have been made and have not returned
    log,      \* the calls and returns of main, in the order they happened
    body,     \* the number of root views attached to the document body
    faults,   \* calls in which the framework handled a failure internally
    queue,    \* host events waiting to be dispatched
    handled   \* the last event delivered to the root component

vars == <<pc, active, log, body, faults, queue, handled>>

\* Longest host event queue explored.
MaxQueue == 2

\* The kinds of host event explored.
Events == {"click", "timer"}

\* The framework calls main makes, in program order (lines 8, 9, 9, 10).
Calls == <<"initialize", "new", "mount_to_body", "run_loop">>

CallSet == {Calls[i] : i \in 1..Len(Calls)}

\* The positions of main: there is no error position.
Positions ==
    {"L8", "in_initialize", "L9new", "in_new", "L9mount", "in_mount_to_body",
     "L10", "in_run_loop", "L11"}

Call(f) == [op |-> "call", f |-> f]

Ret(f) == [op |-> "ret", f |-> f]

\* The one order main.rs allows: each call returns before the next is made.
Linear ==
    <<Call("initialize"), Ret("initialize"), Call("new"), Ret("new"),
      Call("mount_to_body"), Ret("mount_to_body"), Call("run_loop"),
      Ret("run_loop")>>

IsPrefix(s, t) == Len(s) <= Len(t) /\ SubSeq(t, 1, Len(s)) = s

Count(e) == Cardinality({i \in 1..Len(log) : log[i] = e})

Called(f) == Count(Call(f)) > 0

Returned(f) == Count(Ret(f)) > 0

Init ==
    /\ pc = "L8"
    /\ active = {}
    /\ log = <<>>
    /\ body = 0
    /\ faults = {}
    /\ queue = <<>>
    /\ handled = "none"

----------------------------------------------------------------------------
(* main, line 8: yew::initialize();                                        *)

\* Variant of CallInitialize: main goes on without waiting for the return.
CallInitializeNoWait ==
    /\ pc = "L8"
    /\ pc' = "L9new"
    /\ active' = active \cup {"initialize"}
    /\ log' = Append(log, Call("initialize"))
    /\ UNCHANGED <<body, faults, queue, handled>>

CallInitialize ==
    /\ pc = "L8"
    /\ pc' = "in_initialize"
    /\ active' = active \cup {"initialize"}
    /\ log' = Append(log, Call("initialize"))
    /\ UNCHANGED <<body, faults, queue, handled>>

\* Variant of ReturnInitialize: main leaves when initialize failed inside.
ReturnInitializeChecked ==
    /\ pc = "in_initialize"
    /\ \E ok \in BOOLEAN :
          /\ faults' = IF ok THEN faults ELSE faults \cup {"initialize"}
          /\ pc' = IF ok THEN "L9new" ELSE "L11"
    /\ active' = active \ {"initialize"}
    /\ log' = Append(log, Ret("initialize"))
    /\ UNCHANGED <<body, queue, handled>>

\* initialize returns (): whatever happened inside, main goes on to line 9.
ReturnInitialize ==
    /\ pc = "in_initialize"
    /\ \E ok \in BOOLEAN :
          faults' = IF ok THEN faults ELSE faults \cup {"initialize"}
    /\ pc' = "L9new"
    /\ active' = active \ {"initialize"}
    /\ log' = Append(log, Ret("initialize"))
    /\ UNCHANGED <<body, queue, handled>>

----------------------------------------------------------------------------
(* main, line 9: App::<Model>::new().mount_to_body();                       *)

CallNew ==
    /\ pc = "L9new"
    /\ pc' = "in_new"
    /\ active' = active \cup {"new"}
    /\ log' = Append(log, Call("new"))
    /\ UNCHANGED <<body, faults, queue, handled>>

\* Variant of ReturnNew: the mount is left out and line 10 comes next.
ReturnNewSkipMount ==
    /\ pc = "in_new"
    /\ \E ok \in BOOLEAN :
          faults' = IF ok THEN faults ELSE faults \cup {"new"}
    /\ pc' = "L10"
    /\ active' = active \ {"new"}
    /\ log' = Append(log, Ret("new"))
    /\ UNCHANGED <<body, queue, handled>>

\* The App value is the receiver of mount_to_body, which is called next.
ReturnNew ==
    /\ pc = "in_new"
    /\ \E ok \in BOOLEAN :
          faults' = IF ok THEN faults ELSE faults \cup {"new"}
    /\ pc' = "L9mount"
    /\ active' = active \ {"new"}
    /\ log' = Append(log, Ret("new"))
    /\ UNCHANGED <<body, queue, handled>>

\* Variant of CallMount: main goes on without waiting for the return.
CallMountNoWait ==
    /\ pc = "L9mount"
    /\ pc' = "L10"
    /\ active' = active \cup {"mount_to_body"}
    /\ log' = Append(log, Call("mount_to_body"))
    /\ UNCHANGED <<body, faults, queue, handled>>

CallMount ==
    /\ pc = "L9mount"
    /\ pc' = "in_mount_to_body"
    /\ active' = active \cup {"mount_to_body"}
    /\ log' = Append(log, Call("mount_to_body"))
    /\ UNCHANGED <<body, faults, queue, handled>>

\* Variant of ReturnMount: the mount is tried again after a failure inside.
ReturnMountRetry ==
    /\ pc = "in_mount_to_body"
    /\ \E ok \in BOOLEAN :
          /\ faults' = IF ok THEN faults ELSE faults \cup {"mount_to_body"}
          /\ pc' = IF ok THEN "L10" ELSE "L9mount"
    /\ body' = body + 1
    /\ active' = active \ {"mount_to_body"}
    /\ log' = Append(log, Ret("mount_to_body"))
    /\ UNCHANGED <<queue, handled>>

\* Variant of ReturnMount: main starts over at line 8.
ReturnMountReinit ==
    /\ pc = "in_mount_to_body"
    /\ \E ok \in BOOLEAN :
          faults' = IF ok THEN faults ELSE faults \cup {"mount_to_body"}
    /\ pc' = "L8"
    /\ body' = body + 1
    /\ active' = active \ {"mount_to_body"}
    /\ log' = Append(log, Ret("mount_to_body"))
    /\ UNCHANGED <<queue, handled>>

\* The root view is attached to the body; the statement ends, line 10 is next.
ReturnMount ==
    /\ pc = "in_mount_to_body"
    /\ \E ok \in BOOLEAN :
          faults' = IF ok THEN faults ELSE faults \cup {"mount_to_body"}
    /\ pc' = "L10"
    /\ body' = body + 1
    /\ active' = active \ {"mount_to_body"}
    /\ log' = Append(log, Ret("mount_to_body"))
    /\ UNCHANGED <<queue, handled>>

----------------------------------------------------------------------------
(* main, line 10: yew::run_loop();  and line 11, the end of main           *)

\* Variant of CallRunLoop: main ends without entering the run loop.
CallRunLoopSkipped ==
    /\ pc = "L10"
    /\ pc' = "L11"
    /\ UNCHANGED <<active, log, body, faults, queue, handled>>

CallRunLoop ==
    /\ pc = "L10"
    /\ pc' = "in_run_loop"
    /\ active' = active \cup {"run_loop"}
    /\ log' = Append(log, Call("run_loop"))
    /\ UNCHANGED <<body, faults, queue, handled>>

\* main.rs does not say whether run_loop returns; if it does, main ends.
ReturnRunLoop ==
    /\ pc = "in_run_loop"
    /\ pc' = "L11"
    /\ active' = active \ {"run_loop"}
    /\ log' = Append(log, Ret("run_loop"))
    /\ UNCHANGED <<body, faults, queue, handled>>

----------------------------------------------------------------------------
(* The host: events arrive while the page lives and are dispatched to the  *)
(* root component only while main is inside the run loop.                  *)

HostEvent(e) ==
    /\ pc # "L11"
    /\ Len(queue) < MaxQueue
    /\ queue' = Append(queue, e)
    /\ UNCHANGED <<pc, active, log, body, faults, handled>>

Dispatch ==
    /\ "run_loop" \in active
    /\ queue # <<>>
    /\ handled' = Head(queue)
    /\ queue' = Tail(queue)
    /\ UNCHANGED <<pc, active, log, body, faults>>

----------------------------------------------------------------------------

Next ==
    \/ CallInitialize
    \/ ReturnInitialize
    \/ CallNew
    \/ ReturnNew
    \/ CallMount
    \/ ReturnMount
    \/ CallRunLoop
    \/ ReturnRunLoop
    \/ \E e \in Events : HostEvent(e)
    \/ Dispatch

Spec == Init /\ [][Next]_vars

\* main's own steps are taken, and initialize, new and mount_to_body return.
\* Nothing is assumed about run_loop returning or about the host.
FairSpec ==
    /\ Spec
    /\ WF_vars(CallInitialize)
    /\ WF_vars(ReturnInitialize)
    /\ WF_vars(CallNew)
    /\ WF_vars(ReturnNew)
    /\ WF_vars(CallMount)
    /\ WF_vars(ReturnMount)
    /\ WF_vars(CallRunLoop)

----------------------------------------------------------------------------
(* Properties                                                              *)

\* C1: whenever run_loop has been called, mount_to_body has already
\* returned and the root view is attached to the body.
C1_MountBeforeRunLoop ==
    Called("run_loop") =>
        /\ Returned("mount_to_body")
        /\ "mount_to_body" \notin active
        /\ body >= 1

C1_Witness == "run_loop" \in active /\ body = 1

\* C2: the calls and returns of main form a prefix of the one linear order
\* initialize, new, mount_to_body, run_loop, each call returning before the
\* next is made; in particular the root is constructed and mounted only
\* after initialize has returned.
C2_LinearBootstrap ==
    /\ IsPrefix(log, Linear)
    /\ (Called("new") \/ Called("mount_to_body")) =>
           (Returned("initialize") /\ "initialize" \notin active)

C2_Witness == Len(log) = 7 /\ pc = "in_run_loop"

\* C3: mount_to_body is called at most once and at most one root view is
\* attached; once run_loop has been called it was called exactly once and
\* exactly one root view is attached, whatever happened inside the mount.
C3_SingleMount ==
    /\ Count(Call("mount_to_body")) <= 1
    /\ body <= 1
    /\ Called("run_loop") =>
           (Count(Call("mount_to_body")) = 1 /\ body = 1)

C3_Witness ==
    /\ Called("run_loop")
    /\ "mount_to_body" \in faults
    /\ Count(Call("mount_to_body")) = 1

\* C5: main has no error position and no call is made twice; whenever a
\* call has returned, with or without a failure handled inside it, the next
\* call has been made or main stands at it and is free to make it.
C5_NoErrorBranch ==
    /\ pc \in Positions
    /\ \A f \in CallSet : Count(Call(f)) <= 1
    /\ Returned("initialize") =>
           (Called("new") \/ (pc = "L9new" /\ ENABLED CallNew))
    /\ Returned("new") =>
           (Called("mount_to_body") \/ (pc = "L9mount" /\ ENABLED CallMount))
    /\ Returned("mount_to_body") =>
           (Called("run_loop") \/ (pc = "L10" /\ ENABLED CallRunLoop))

C5_Witness ==
    /\ faults = {"initialize", "new", "mount_to_body"}
    /\ Called("run_loop")

\* C6: at most one framework call is in progress at any time.
C6_OneCallInProgress == Cardinality(active) <= 1

C6_Witness == active = {"mount_to_body"}

\* C7: if main's steps are taken and initialize, new and mount_to_body
\* return, main eventually is inside run_loop with the runtime initialized
\* and the root mounted.
C7_ReachesRunLoop ==
    <>(/\ pc = "in_run_loop"
       /\ "run_loop" \in active
       /\ Returned("initialize")
       /\ body = 1)

C7_Witness ==
    /\ pc = "in_run_loop"
    /\ Returned("initialize")
    /\ Returned("mount_to_body")
    /\ body = 1

\* C8: initialize is called at most once, and no call of it comes after a
\* call or return of mount_to_body or run_loop.
C8_SingleInitialize ==
    /\ Count(Call("initialize")) <= 1
    /\ \A i \in 1..Len(log) :
           log[i] = Call("initialize") =>
               \A j \in 1..(i - 1) : log[j].f \notin {"mount_to_body", "run_loop"}

C8_Witness ==
    /\ Returned("run_loop")
    /\ body = 1
    /\ Count(Call("initialize")) = 1

====
